---- MODULE Spec2Model ----
(***************************************************************************)
(* Authentication and session-security subsystem of Ultimate_Blog.         *)
(* The record store (users, user_sessions, user_devices, user_activities,  *)
(* blocked_ips) is the shared state; every request handler of             *)
(* AuthController is an action, or, where its awaits matter, a sequence of *)
(* steps of one request slot.                                              *)
(***************************************************************************)
EXTENDS Integers, Sequences, FiniteSets, TLC

\* ---------------------------------------------------------------- bounds
MaxUsers == 2
MaxTokens == 4
MaxSessions == 3
MaxActivities == 7
MaxTicks == 1
MaxBalance == 3

\* ------------------------------------------------------ program constants
FailThreshold == 5
CodeTTL == 30
SessionTTL == 1440
FailWindow == 15
ShaOffset == 1000
SuspiciousKm == 1000
UuidLen == 36

\* ------------------------------------------------------------ input sets
Procs == {1, 2}
Emails == {"e1", "e2"}
Passwords == {"p1", "p2"}
Ips == {"a1", "a2"}
Codes == {"c1", "c2"}
UserAgent == "ua1"
TickSteps == {CodeTTL, CodeTTL + 1}
DaySteps == {SessionTTL, SessionTTL + 1}
\* passwords and codes are opaque values compared for equality only: the
\* first password a user chooses and the first code generated are fixed
RegPasswords == {"p1"}
RegCodes == {"c1"}
Amounts == {1, 2}
WalletTypes == {"add", "subtract", "refund"}

NoUser == 0
NoToken == 0
NoTime == -1
NoCode == "none"
NoSession == 0

VARIABLES users, user_sessions, user_devices, user_activities, blocked_ips,
          now, ticks, issued, req

store == <<users, user_sessions, user_devices, user_activities, blocked_ips>>
vars == <<users, user_sessions, user_devices, user_activities, blocked_ips,
          now, ticks, issued, req>>

\* ------------------------------------------------------------ primitives

\* crypto.randomBytes: every generated token is a value never seen before;
\* issued[t] records for which flow and user token t was generated
nextTok == Len(issued) + 1
Issue(kind, userId) == Append(issued, [kind |-> kind, uid |-> userId])

\* bcrypt: the stored value is a hash of the plaintext, never the plaintext
hashPassword(password) == <<"bcrypt", password>>

comparePassword(providedPassword, storedPassword) ==
    storedPassword = hashPassword(providedPassword)

\* crypto.createHash('sha256').update(token).digest('hex')
Sha256(token) == ShaOffset + token

\* PostgREST .single(): the row when exactly one row matches, else no data
Single(ids) == IF Cardinality(ids) = 1 THEN CHOOSE i \in ids : TRUE ELSE NoUser

UserIds == 1..Len(users)

findByEmail(email) ==
    Single({i \in UserIds : users[i].email = email /\ users[i].deleted_at = NoTime})

findByResetToken_StoredColumn(token) ==
    Single({i \in UserIds : users[i].reset_password_token = token
                            /\ users[i].deleted_at = NoTime})

findByResetToken_AnyToken(token) ==
    Single({i \in UserIds : users[i].deleted_at = NoTime})

findByResetToken(token) ==
    Single({i \in UserIds : users[i].reset_token = token /\ users[i].deleted_at = NoTime})

findByRefreshToken_NoTombstone(token) ==
    Single({i \in UserIds : users[i].refresh_token = token})

findByRefreshToken(token) ==
    Single({i \in UserIds : users[i].refresh_token = token /\ users[i].deleted_at = NoTime})

\* User.update(id, updateData): role and wallet_balance are dropped, password
\* is hashed, every other field of updateData is written as given, on the
\* row with that id
UpdateRow(us, id, fields) ==
    [us EXCEPT ![id] = [k \in DOMAIN us[id] |->
        IF k \in DOMAIN fields THEN fields[k] ELSE us[id][k]]]

update(us, id, updateData) ==
    LET safeData == DOMAIN updateData \ {"role", "wallet_balance"}
    IN UpdateRow(us, id, [k \in safeData |->
           IF k = "password" THEN hashPassword(updateData[k]) ELSE updateData[k]])

\* SecurityUtils.generateDeviceFingerprint: hash of user-agent | language | ip
generateDeviceFingerprint(ip) == <<"fp", UserAgent, ip>>

\* SecurityUtils.isIpBlocked: .single() on blocked_ips, true iff data
isIpBlocked(ip) ==
    Cardinality({i \in 1..Len(blocked_ips) : blocked_ips[i].ip = ip}) = 1

\* SessionManager.logActivity: one appended row. The details payload is kept
\* by its kind: "attempt" is the attempt record of handleFailedLogin, "error"
\* is { error: error.message } of a catch block, "none" is any other payload
ActivityRow(userId, sessionId, activityType, ip, status, details) ==
    [user_id |-> userId, session_id |-> sessionId, activity_type |-> activityType,
     ip_address |-> ip, status |-> status, details |-> details, created_at |-> now]

logActivityWith(acts, userId, sessionId, activityType, ip, status, details) ==
    Append(acts, ActivityRow(userId, sessionId, activityType, ip, status, details))

logActivity(acts, userId, sessionId, activityType, ip, status) ==
    logActivityWith(acts, userId, sessionId, activityType, ip, status, "none")

\* SessionManager.updateDeviceRecord: touch the existing row or insert one
updateDeviceRecord(devs, userId, fingerprint) ==
    LET hit == {i \in 1..Len(devs) : devs[i].user_id = userId
                                     /\ devs[i].device_fingerprint = fingerprint}
    IN IF Cardinality(hit) = 1
       THEN [devs EXCEPT ![CHOOSE i \in hit : TRUE].last_used_at = now]
       ELSE Append(devs, [user_id |-> userId, device_fingerprint |-> fingerprint,
                          last_used_at |-> NoTime])

NewSession_TtlInSeconds(userId, ip) ==
    [user_id |-> userId, session_token |-> Len(user_sessions) + 1,
     device_fingerprint |-> generateDeviceFingerprint(ip), ip_address |-> ip,
     created_at |-> now, expires_at |-> now + (SessionTTL \div 60), is_active |-> TRUE]

\* SessionManager.createSession: the inserted session row
NewSession(userId, ip) ==
    [user_id |-> userId, session_token |-> Len(user_sessions) + 1,
     device_fingerprint |-> generateDeviceFingerprint(ip), ip_address |-> ip,
     created_at |-> now, expires_at |-> now + SessionTTL, is_active |-> TRUE]

invalidateSession_Toggle(sess, sessionId) ==
    [i \in 1..Len(sess) |->
        IF sess[i].session_token = sessionId
        THEN [sess[i] EXCEPT !.is_active = ~sess[i].is_active]
        ELSE sess[i]]

\* SessionManager.invalidateSession: is_active set to false on one row
invalidateSession(sess, sessionId) ==
    [i \in 1..Len(sess) |->
        IF sess[i].session_token = sessionId THEN [sess[i] EXCEPT !.is_active = FALSE]
        ELSE sess[i]]

\* SessionManager.invalidateAllUserSessions (called by resetPassword)
invalidateAllUserSessions(sess, userId) ==
    [i \in 1..Len(sess) |->
        IF sess[i].user_id = userId THEN [sess[i] EXCEPT !.is_active = FALSE]
        ELSE sess[i]]

\* SessionManager.validateSession lookup: the active row with that token
ActiveSession(sessionToken) ==
    Single({i \in 1..Len(user_sessions) :
              user_sessions[i].session_token = sessionToken /\ user_sessions[i].is_active})

\* SecurityUtils.getRecentFailedAttempts: FAILED rows of the address inside
\* the trailing window
getRecentFailedAttempts(ip) ==
    Cardinality({i \in 1..Len(user_activities) :
                    /\ user_activities[i].ip_address = ip
                    /\ user_activities[i].status = "FAILED"
                    /\ user_activities[i].created_at >= now - FailWindow})

\* SecurityUtils.blockIp: one inserted blocked_ips row
blockIp(blocked, ip) ==
    Append(blocked, [ip |-> ip, reason |-> "Too many failed login attempts"])

\* SecurityUtils.getKnownDevices: the device rows of the user
getKnownDevices(userId) ==
    {user_devices[i].device_fingerprint : i \in
        {j \in 1..Len(user_devices) : user_devices[j].user_id = userId}}

\* SecurityUtils.getLocationInfo: geoip lookup, null for an unknown address
NoLocation == "unknown"
getLocationInfo(ip) == IF ip = "a1" THEN "accra" ELSE NoLocation

\* SecurityUtils.calculateDistance: great-circle distance in km between two
\* points. The points are named and lie on one great circle, each at the
\* given distance from the first; "edge" is a point for which the function
\* returns exactly the threshold
Along == [accra |-> 0, tema |-> 25, edge |-> 1000, london |-> 5100]
Points == DOMAIN Along

calculateDistance(a, b) ==
    IF Along[a] >= Along[b] THEN Along[a] - Along[b] ELSE Along[b] - Along[a]

\* JavaScript values handed to isSuspiciousLocation as previousLocations
JsNull == [kind |-> "null", len |-> 0, items |-> << >>]
JsString(n) == [kind |-> "string", len |-> n, items |-> << >>]
JsArray(items) == [kind |-> "array", len |-> Len(items), items |-> items]

\* SecurityUtils.isSuspiciousLocation: "true", "false" or "throw" (TypeError)
isSuspiciousLocation(newLocation, previousLocations) ==
    IF previousLocations.kind = "null" \/ previousLocations.len = 0 THEN "false"
    ELSE IF newLocation = NoLocation THEN "throw"
    ELSE IF previousLocations.kind # "array" THEN "throw"
    ELSE IF \E i \in 1..previousLocations.len :
               calculateDistance(newLocation, previousLocations.items[i]) < SuspiciousKm
         THEN "false" ELSE "true"

\* AuthController.checkSuspiciousActivity: the user id is what the call
\* passes as previousLocations
checkSuspiciousActivity(userId, ip) ==
    LET isKnownDevice == generateDeviceFingerprint(ip) \in getKnownDevices(userId)
        suspicious == isSuspiciousLocation(getLocationInfo(ip), JsString(UuidLen))
    IN IF suspicious = "throw" THEN "throw"
       ELSE IF ~isKnownDevice \/ suspicious = "true" THEN "true" ELSE "false"

\* ------------------------------------------------------------ requests
IdleReq ==
    [op |-> "none", pc |-> "idle", ip |-> "a1", email |-> "e1", password |-> "p1",
     token |-> NoToken, code |-> NoCode, uid |-> NoUser, sid |-> NoSession,
     status |-> 0, out |-> NoToken, caller |-> NoUser, msg |-> "none",
     mail |-> "none", flag |-> FALSE, device |-> "none",
     type |-> "none", amount |-> 0, newBalance |-> 0, existingDevice |-> 0,
     newLocation |-> NoLocation, previousLocations |-> JsNull]

Free(p) == req[p].pc \in {"idle", "done"}
AllFree == \A p \in Procs : Free(p)

Done(r, status) == [r EXCEPT !.pc = "done", !.status = status]

Init ==
    /\ users = << >>
    /\ user_sessions = << >>
    /\ user_devices = << >>
    /\ user_activities = << >>
    /\ blocked_ips = << >>
    /\ now = 0
    /\ ticks = 0
    /\ issued = << >>
    /\ req = [p \in Procs |-> IdleReq]

\* time passes between requests
Tick ==
    /\ ticks < MaxTicks
    /\ \E d \in TickSteps : now' = now + d
    /\ ticks' = ticks + 1
    /\ UNCHANGED <<store, issued, req>>

\* a day passes between requests
TickDay ==
    /\ ticks < MaxTicks
    /\ \E d \in DaySteps : now' = now + d
    /\ ticks' = ticks + 1
    /\ UNCHANGED <<store, issued, req>>

sendVerificationEmail_Throws(delivered) == IF delivered THEN "sent" ELSE "throw"

\* EmailService.sendVerificationEmail: a failure to send is caught and
\* reported by the return value, which the callers ignore
sendVerificationEmail(delivered) == IF delivered THEN "sent" ELSE "undelivered"

NewUser_PreVerified(email, password, code, expires) ==
    [email |-> email, password |-> hashPassword(password), verified |-> TRUE,
     refresh_token |-> NoToken,
     verification_code |-> code, verification_code_expires |-> expires,
     reset_password_token |-> NoToken, reset_password_expire |-> NoTime,
     reset_token |-> NoToken, deleted_at |-> NoTime, email_verified_at |-> NoTime,
     wallet_balance |-> 0, role |-> "user"]

\* User.create called with the fields register passes (no role): the
\* inserted row
NewUser(email, password, code, expires) ==
    [email |-> email, password |-> hashPassword(password), verified |-> FALSE,
     refresh_token |-> NoToken,
     verification_code |-> code, verification_code_expires |-> expires,
     reset_password_token |-> NoToken, reset_password_expire |-> NoTime,
     reset_token |-> NoToken, deleted_at |-> NoTime, email_verified_at |-> NoTime,
     wallet_balance |-> 0, role |-> "user"]

\* User.create(userData): the columns of userData are spread into the row,
\* then wallet_balance, role and verified are set: role is userData.role when
\* the body has one
create(userData) ==
    LET base == NewUser(userData.email, userData.password, NoCode, NoTime)
        spread == (DOMAIN userData \cap DOMAIN base) \
                     {"email", "password", "wallet_balance", "verified", "role"}
        role == IF "role" \in DOMAIN userData THEN userData.role ELSE "user"
    IN [k \in DOMAIN base |->
          IF k = "role" THEN role ELSE IF k \in spread THEN userData[k] ELSE base[k]]

\* createUser: `existingUser.length > 0`. QueryBuilder.get answers an object
\* ({ statusCode, objectName, data, pagination } or { statusCode, error }),
\* never an array, so the length is undefined and the comparison is false
emailExists(email) == FALSE

\* the fields a request body may carry besides email and password
BodyExtras ==
    {<< >>, [role |-> "admin"], [verified |-> TRUE, wallet_balance |-> 2],
     [role |-> "admin", verified |-> TRUE, wallet_balance |-> 2]}

\* UserController.createUser with request body `body`
CreateUser(p, body) ==
    LET r == [IdleReq EXCEPT !.op = "create", !.email = body.email,
                             !.password = body.password]
        id == Len(users) + 1
    IN /\ Free(p)
       /\ Len(users) < MaxUsers
       /\ IF emailExists(body.email)
          THEN /\ req' = [req EXCEPT ![p] = [Done(r, 400) EXCEPT !.msg = "DuplicateEmail"]]
               /\ UNCHANGED users
          ELSE /\ users' = Append(users, create(body))
               /\ req' = [req EXCEPT ![p] = [Done(r, 201) EXCEPT !.uid = id]]
       /\ UNCHANGED <<user_sessions, user_devices, user_activities, blocked_ips,
                      now, ticks, issued>>

\* register from User.create on: the user row, createSession, the refresh
\* token, the verification message, the REGISTRATION row and the response
RegisterCommit(p, r, code, delivered) ==
    LET id == Len(users) + 1
        created == Append(users, NewUser(r.email, r.password, code, now + CodeTTL))
        session == NewSession(id, r.ip)
        sent == sendVerificationEmail(delivered)
        answer == [r EXCEPT !.uid = id, !.sid = session.session_token,
                            !.code = code, !.mail = sent]
    IN /\ Len(users) < MaxUsers
       /\ Len(user_sessions) < MaxSessions
       /\ Len(user_activities) + 2 <= MaxActivities
       /\ nextTok <= MaxTokens
       /\ users' = update(created, id, [refresh_token |-> nextTok])
       /\ user_devices' = updateDeviceRecord(user_devices, id,
                                             generateDeviceFingerprint(r.ip))
       /\ user_sessions' = Append(user_sessions, session)
       /\ issued' = Issue("refresh", id)
       /\ IF sent = "throw"
          THEN /\ user_activities' =
                     logActivityWith(
                       logActivity(user_activities, id, session.session_token,
                                   "LOGIN", r.ip, "SUCCESS"),
                       NoUser, NoSession, "REGISTRATION_FAILED", r.ip, "FAILED",
                       "error")
               /\ req' = [req EXCEPT ![p] = Done(answer, 500)]
          ELSE /\ user_activities' =
                     logActivity(
                       logActivity(user_activities, id, session.session_token,
                                   "LOGIN", r.ip, "SUCCESS"),
                       id, session.session_token, "REGISTRATION", r.ip, "SUCCESS")
               /\ req' = [req EXCEPT ![p] = [Done(answer, 201) EXCEPT !.out = nextTok]]
       /\ UNCHANGED blocked_ips

\* AuthController.register, for requests that run one at a time
Register(p, ip, email, password, code, delivered) ==
    LET r == [IdleReq EXCEPT !.op = "register", !.ip = ip, !.email = email,
                             !.password = password]
    IN
    /\ Free(p)
    /\ IF isIpBlocked(ip)
       THEN /\ req' = [req EXCEPT ![p] = [Done(r, 403) EXCEPT !.msg = "Blocked"]]
            /\ UNCHANGED <<store, issued>>
       ELSE IF findByEmail(email) # NoUser
       THEN /\ req' = [req EXCEPT ![p] = [Done(r, 400) EXCEPT !.msg = "DuplicateEmail"]]
            /\ UNCHANGED <<store, issued>>
       ELSE RegisterCommit(p, r, code, delivered)
    /\ UNCHANGED <<now, ticks>>

\* register step by step: isIpBlocked and findByEmail
RegisterRead(p, ip, email, password) ==
    LET r == [IdleReq EXCEPT !.op = "register", !.ip = ip, !.email = email,
                             !.password = password]
    IN /\ Free(p)
       /\ req' = [req EXCEPT ![p] =
            IF isIpBlocked(ip) THEN [Done(r, 403) EXCEPT !.msg = "Blocked"]
            ELSE IF findByEmail(email) # NoUser
                 THEN [Done(r, 400) EXCEPT !.msg = "DuplicateEmail"]
            ELSE [r EXCEPT !.pc = "rg_create"]]
       /\ UNCHANGED <<store, now, ticks, issued>>

\* register step by step: User.create and everything after it
RegisterWrite(p, code, delivered) ==
    /\ req[p].pc = "rg_create"
    /\ RegisterCommit(p, req[p], code, delivered)
    /\ UNCHANGED <<now, ticks>>

\* rows a request in flight may still append to user_activities
Pending(p) ==
    CASE req[p].pc \in {"lg_find", "lg_devread", "lg_devwrite", "lg_session", "lg_sesslog",
                        "rg_create"} -> 2
      [] req[p].pc \in {"lg_faillog", "lg_check", "lg_catch", "rt_fetch", "rt_write", "rt_log",
                        "ve_write", "ve_log"} -> 1
      [] OTHER -> 0

Room(need) ==
    Len(user_activities) + Pending(1) + Pending(2) + need <= MaxActivities

\* ---------------------------------------------------- AuthController.login
\* admission gate
LoginGate(p, ip, email, password) ==
    LET r == [IdleReq EXCEPT !.op = "login", !.ip = ip, !.email = email,
                             !.password = password]
    IN /\ Free(p)
       /\ IF isIpBlocked(ip)
          THEN req' = [req EXCEPT ![p] = Done(r, 403)]
          ELSE /\ Room(2)
               /\ Len(user_sessions) < MaxSessions
               /\ req' = [req EXCEPT ![p] = [r EXCEPT !.pc = "lg_find"]]
       /\ UNCHANGED <<store, now, ticks, issued>>

LoginFind_NoVerifiedCheck(p) ==
    LET r == req[p]
        user == findByEmail(r.email)
    IN /\ r.pc = "lg_find"
       /\ req' = [req EXCEPT ![p] =
            IF user = NoUser THEN [r EXCEPT !.pc = "lg_faillog"]
            ELSE IF ~comparePassword(r.password, users[user].password)
                 THEN [r EXCEPT !.pc = "lg_faillog", !.uid = user]
            ELSE [r EXCEPT !.pc = "lg_devread", !.uid = user,
                           !.device = IF generateDeviceFingerprint(r.ip)
                                           \in getKnownDevices(user)
                                      THEN "known" ELSE "new"]]
       /\ UNCHANGED <<store, now, ticks, issued>>

\* findByEmail, comparePassword, verified check; device records whether the
\* user had a Device row for the fingerprint of the request when it was
\* admitted
LoginFind(p) ==
    LET r == req[p]
        user == findByEmail(r.email)
    IN /\ r.pc = "lg_find"
       /\ req' = [req EXCEPT ![p] =
            IF user = NoUser THEN [r EXCEPT !.pc = "lg_faillog"]
            ELSE IF ~comparePassword(r.password, users[user].password)
                 THEN [r EXCEPT !.pc = "lg_faillog", !.uid = user]
            ELSE IF ~users[user].verified THEN [Done(r, 403) EXCEPT !.uid = user]
            ELSE [r EXCEPT !.pc = "lg_devread", !.uid = user,
                           !.device = IF generateDeviceFingerprint(r.ip)
                                           \in getKnownDevices(user)
                                      THEN "known" ELSE "new"]]
       /\ UNCHANGED <<store, now, ticks, issued>>

\* handleFailedLogin: the FAILED activity row
LoginFailLog(p) ==
    LET r == req[p]
    IN /\ r.pc = "lg_faillog"
       /\ user_activities' = logActivityWith(user_activities, r.uid, NoSession,
                                             "LOGIN_FAILED", r.ip, "FAILED",
                                             "attempt")
       /\ req' = [req EXCEPT ![p].pc = "lg_count"]
       /\ UNCHANGED <<users, user_sessions, user_devices, blocked_ips, now, ticks, issued>>

\* handleFailedLogin: count the recent failures of the address
LoginCount(p) ==
    LET r == req[p]
    IN /\ r.pc = "lg_count"
       /\ req' = [req EXCEPT ![p] =
            IF getRecentFailedAttempts(r.ip) >= FailThreshold
            THEN [r EXCEPT !.pc = "lg_block"] ELSE Done(r, 401)]
       /\ UNCHANGED <<store, now, ticks, issued>>

\* handleFailedLogin: block the address, then the 401 response
LoginBlock(p) ==
    LET r == req[p]
    IN /\ r.pc = "lg_block"
       /\ blocked_ips' = blockIp(blocked_ips, r.ip)
       /\ req' = [req EXCEPT ![p] = Done(r, 401)]
       /\ UNCHANGED <<users, user_sessions, user_devices, user_activities, now, ticks, issued>>

\* createSession: updateDeviceRecord
LoginDevice(p) ==
    LET r == req[p]
    IN /\ r.pc = "lg_devread"
       /\ user_devices' = updateDeviceRecord(user_devices, r.uid,
                                             generateDeviceFingerprint(r.ip))
       /\ req' = [req EXCEPT ![p].pc = "lg_session"]
       /\ UNCHANGED <<users, user_sessions, user_activities, blocked_ips, now, ticks, issued>>

\* updateDeviceRecord step by step: the select of the row of the pair with
\* .single(), which gives no data for none or several rows
DeviceRead(p) ==
    LET r == req[p]
        fingerprint == generateDeviceFingerprint(r.ip)
        existingDevice == Single({i \in 1..Len(user_devices) :
                                     /\ user_devices[i].user_id = r.uid
                                     /\ user_devices[i].device_fingerprint = fingerprint})
    IN /\ r.pc = "lg_devread"
       /\ req' = [req EXCEPT ![p].pc = "lg_devwrite", ![p].existingDevice = existingDevice]
       /\ UNCHANGED <<store, now, ticks, issued>>

\* updateDeviceRecord step by step: the update of the row that was read, or
\* the insert
DeviceWrite(p) ==
    LET r == req[p]
    IN /\ r.pc = "lg_devwrite"
       /\ user_devices' =
             IF r.existingDevice # 0
             THEN [user_devices EXCEPT ![r.existingDevice].last_used_at = now]
             ELSE Append(user_devices,
                         [user_id |-> r.uid,
                          device_fingerprint |-> generateDeviceFingerprint(r.ip),
                          last_used_at |-> NoTime])
       /\ req' = [req EXCEPT ![p].pc = "lg_session", ![p].existingDevice = 0]
       /\ UNCHANGED <<users, user_sessions, user_activities, blocked_ips, now, ticks, issued>>

\* createSession: the session row
LoginSession(p) ==
    LET r == req[p]
        session == NewSession(r.uid, r.ip)
    IN /\ r.pc = "lg_session"
       /\ user_sessions' = Append(user_sessions, session)
       /\ req' = [req EXCEPT ![p].pc = "lg_sesslog", ![p].sid = session.session_token]
       /\ UNCHANGED <<users, user_devices, user_activities, blocked_ips, now, ticks, issued>>

\* createSession: the LOGIN activity row
LoginSessLog(p) ==
    LET r == req[p]
    IN /\ r.pc = "lg_sesslog"
       /\ user_activities' = logActivity(user_activities, r.uid, r.sid,
                                         "LOGIN", r.ip, "SUCCESS")
       /\ req' = [req EXCEPT ![p].pc = "lg_check"]
       /\ UNCHANGED <<users, user_sessions, user_devices, blocked_ips, now, ticks, issued>>

\* EmailService.sendSuspiciousLoginEmail: best-effort, the flow goes on
\* whether or not the message was delivered
sendSuspiciousLoginEmail(delivered) == IF delivered THEN "suspicious" ELSE "undelivered"

\* anomaly check, notification, then tokens, refresh-token update, LOGIN
\* row, response; flag is requires_verification of the response
LoginCheck(p) ==
    LET r == req[p]
        isSuspicious == checkSuspiciousActivity(r.uid, r.ip)
    IN /\ r.pc = "lg_check"
       /\ IF isSuspicious = "throw"
          THEN /\ req' = [req EXCEPT ![p].pc = "lg_catch"]
               /\ UNCHANGED <<store, issued>>
          ELSE /\ nextTok <= MaxTokens
               /\ users' = update(users, r.uid, [refresh_token |-> nextTok])
               /\ user_activities' = logActivity(user_activities, r.uid, r.sid,
                                                 "LOGIN", r.ip, "SUCCESS")
               /\ issued' = Issue("refresh", r.uid)
               /\ \E delivered \in BOOLEAN :
                     req' = [req EXCEPT ![p] =
                               [Done(r, 200) EXCEPT !.out = nextTok,
                                  !.flag = (isSuspicious = "true"),
                                  !.mail = IF isSuspicious = "true"
                                           THEN sendSuspiciousLoginEmail(delivered)
                                           ELSE "none"]]
               /\ UNCHANGED <<user_sessions, user_devices, blocked_ips>>
       /\ UNCHANGED <<now, ticks>>

\* message of the TypeError thrown inside isSuspiciousLocation
NullLocationError == "Cannot read properties of null (reading 'll')"
NotAnArrayError == "previousLocations.some is not a function"
ErrorMessages == {NullLocationError, NotAnArrayError}

suspiciousLocationError(newLocation) ==
    IF newLocation = NoLocation THEN NullLocationError ELSE NotAnArrayError

\* ResponseHandler.error(res, message): status 500 with the message given
error(r, message) == [Done(r, 500) EXCEPT !.msg = message]

\* catch block of login: the FAILED row, then error(res, error.message)
LoginCatch(p) ==
    LET r == req[p]
    IN /\ r.pc = "lg_catch"
       /\ user_activities' = logActivityWith(user_activities, NoUser, NoSession,
                                             "LOGIN_FAILED", r.ip, "FAILED",
                                             "error")
       /\ req' = [req EXCEPT ![p] =
                    error(r, suspiciousLocationError(getLocationInfo(r.ip)))]
       /\ UNCHANGED <<users, user_sessions, user_devices, blocked_ips, now, ticks, issued>>

\* --------------------------------------------- AuthController.refreshToken
\* findByRefreshToken, then the new pair is generated
RefreshFind(p, ip, token) ==
    LET r == [IdleReq EXCEPT !.op = "refresh", !.ip = ip, !.token = token]
        user == findByRefreshToken(token)
    IN /\ Free(p)
       /\ IF user = NoUser
          THEN /\ req' = [req EXCEPT ![p] = Done(r, 401)]
               /\ UNCHANGED issued
          ELSE /\ Room(1)
               /\ nextTok <= MaxTokens
               /\ req' = [req EXCEPT ![p] =
                            [r EXCEPT !.pc = "rt_write", !.uid = user, !.out = nextTok]]
               /\ issued' = Issue("refresh", user)
       /\ UNCHANGED <<store, now, ticks>>

\* User.update(user.id, { refresh_token })
RefreshWrite(p) ==
    LET r == req[p]
    IN /\ r.pc = "rt_write"
       /\ users' = update(users, r.uid, [refresh_token |-> r.out])
       /\ req' = [req EXCEPT ![p].pc = "rt_log"]
       /\ UNCHANGED <<user_sessions, user_devices, user_activities, blocked_ips,
                      now, ticks, issued>>

\* TOKEN_REFRESHED row and the response
RefreshLog(p) ==
    LET r == req[p]
    IN /\ r.pc = "rt_log"
       /\ user_activities' = logActivity(user_activities, r.uid, NoSession,
                                         "TOKEN_REFRESHED", r.ip, "SUCCESS")
       /\ req' = [req EXCEPT ![p] = Done(r, 200)]
       /\ UNCHANGED <<users, user_sessions, user_devices, blocked_ips, now, ticks, issued>>

\* ---------------------------------------------- AuthController.verifyEmail
verifyOutcome_ExpiryInclusive(user, code) ==
    IF user = NoUser THEN "NotFound"
    ELSE IF users[user].verified THEN "AlreadyDone"
    ELSE IF users[user].verification_code = NoCode
            \/ users[user].verification_code # code THEN "InvalidCode"
    ELSE IF now >= users[user].verification_code_expires THEN "Expired"
    ELSE "ok"

\* the checks of verifyEmail on the row findByEmail returned, in their order
verifyOutcome(user, code) ==
    IF user = NoUser THEN "NotFound"
    ELSE IF users[user].verified THEN "AlreadyDone"
    ELSE IF users[user].verification_code = NoCode
            \/ users[user].verification_code # code THEN "InvalidCode"
    ELSE IF now > users[user].verification_code_expires THEN "Expired"
    ELSE "ok"

\* status of the response for each outcome
verifyStatus(outcome) ==
    CASE outcome = "NotFound" -> 404
      [] outcome \in {"AlreadyDone", "InvalidCode", "Expired"} -> 400
      [] outcome = "ok" -> 200

verifiedFields_KeepCode ==
    [verified |-> TRUE, email_verified_at |-> now]

\* the update verifyEmail makes on success
verifiedFields ==
    [verified |-> TRUE, verification_code |-> NoCode,
     verification_code_expires |-> NoTime, email_verified_at |-> now]

\* EmailService.sendWelcomeEmail: best-effort, the flow goes on whether or
\* not the message was delivered
sendWelcomeEmail(delivered) == IF delivered THEN "welcome" ELSE "undelivered"

\* the whole handler, for requests that run one at a time
VerifyEmail(p, ip, email, code, delivered) ==
    LET r == [IdleReq EXCEPT !.op = "verify", !.ip = ip, !.email = email, !.code = code]
        user == findByEmail(email)
        outcome == verifyOutcome(user, code)
        answer == [Done(r, verifyStatus(outcome)) EXCEPT !.uid = user, !.msg = outcome,
                      !.mail = IF outcome = "ok" THEN sendWelcomeEmail(delivered)
                               ELSE "none"]
    IN /\ Free(p)
       /\ IF outcome # "ok"
          THEN /\ req' = [req EXCEPT ![p] = answer]
               /\ UNCHANGED store
          ELSE /\ Room(1)
               /\ users' = update(users, user, verifiedFields)
               /\ user_activities' = logActivity(user_activities, user, NoSession,
                                                 "EMAIL_VERIFIED", ip, "SUCCESS")
               /\ req' = [req EXCEPT ![p] = answer]
               /\ UNCHANGED <<user_sessions, user_devices, blocked_ips>>
       /\ UNCHANGED <<now, ticks, issued>>

\* verifyEmail step by step: findByEmail and the checks
VerifyRead(p, ip, email, code) ==
    LET r == [IdleReq EXCEPT !.op = "verify", !.ip = ip, !.email = email, !.code = code]
        user == findByEmail(email)
        outcome == verifyOutcome(user, code)
    IN /\ Free(p)
       /\ IF outcome # "ok"
          THEN req' = [req EXCEPT ![p] = [Done(r, verifyStatus(outcome))
                                            EXCEPT !.uid = user, !.msg = outcome]]
          ELSE /\ Room(1)
               /\ req' = [req EXCEPT ![p] = [r EXCEPT !.pc = "ve_write", !.uid = user]]
       /\ UNCHANGED <<store, now, ticks, issued>>

\* User.update(user.id, { verified: true, ... })
VerifyWrite(p) ==
    /\ req[p].pc = "ve_write"
    /\ users' = update(users, req[p].uid, verifiedFields)
    /\ req' = [req EXCEPT ![p].pc = "ve_log"]
    /\ UNCHANGED <<user_sessions, user_devices, user_activities, blocked_ips,
                   now, ticks, issued>>

\* the EMAIL_VERIFIED row, the welcome message and the response
VerifyLog(p) ==
    /\ req[p].pc = "ve_log"
    /\ user_activities' = logActivity(user_activities, req[p].uid, NoSession,
                                      "EMAIL_VERIFIED", req[p].ip, "SUCCESS")
    /\ \E delivered \in BOOLEAN :
          req' = [req EXCEPT ![p] = [Done(req[p], 200) EXCEPT
                                       !.msg = "ok", !.mail = sendWelcomeEmail(delivered)]]
    /\ UNCHANGED <<users, user_sessions, user_devices, blocked_ips, now, ticks, issued>>

\* ---------------------------------------- AuthController.resendVerification
ResendVerification_KeepExpiry(p, ip, email, code, delivered) ==
    LET r == [IdleReq EXCEPT !.op = "resend", !.ip = ip, !.email = email, !.code = code]
        user == findByEmail(email)
    IN /\ Free(p)
       /\ IF user = NoUser
          THEN /\ req' = [req EXCEPT ![p] = [Done(r, 404) EXCEPT !.msg = "NotFound"]]
               /\ UNCHANGED store
          ELSE IF users[user].verified
          THEN /\ req' = [req EXCEPT ![p] =
                            [Done(r, 400) EXCEPT !.uid = user, !.msg = "AlreadyDone"]]
               /\ UNCHANGED store
          ELSE /\ Room(1)
               /\ users' = update(users, user,
                              [verification_code |-> code])
               /\ IF sendVerificationEmail(delivered) = "throw"
                  THEN /\ req' = [req EXCEPT ![p] =
                                    [Done(r, 500) EXCEPT !.uid = user,
                                        !.mail = sendVerificationEmail(delivered)]]
                       /\ UNCHANGED user_activities
                  ELSE /\ user_activities' =
                             logActivity(user_activities, user, NoSession,
                                         "VERIFICATION_CODE_RESENT", ip, "SUCCESS")
                       /\ req' = [req EXCEPT ![p] =
                                    [Done(r, 200) EXCEPT !.uid = user, !.msg = "ok",
                                        !.mail = sendVerificationEmail(delivered)]]
               /\ UNCHANGED <<user_sessions, user_devices, blocked_ips>>
       /\ UNCHANGED <<now, ticks, issued>>

\* code is the value generateVerificationCode draws
ResendVerification(p, ip, email, code, delivered) ==
    LET r == [IdleReq EXCEPT !.op = "resend", !.ip = ip, !.email = email, !.code = code]
        user == findByEmail(email)
    IN /\ Free(p)
       /\ IF user = NoUser
          THEN /\ req' = [req EXCEPT ![p] = [Done(r, 404) EXCEPT !.msg = "NotFound"]]
               /\ UNCHANGED store
          ELSE IF users[user].verified
          THEN /\ req' = [req EXCEPT ![p] =
                            [Done(r, 400) EXCEPT !.uid = user, !.msg = "AlreadyDone"]]
               /\ UNCHANGED store
          ELSE /\ Room(1)
               /\ users' = update(users, user,
                              [verification_code |-> code,
                               verification_code_expires |-> now + CodeTTL])
               /\ IF sendVerificationEmail(delivered) = "throw"
                  THEN /\ req' = [req EXCEPT ![p] =
                                    [Done(r, 500) EXCEPT !.uid = user,
                                        !.mail = sendVerificationEmail(delivered)]]
                       /\ UNCHANGED user_activities
                  ELSE /\ user_activities' =
                             logActivity(user_activities, user, NoSession,
                                         "VERIFICATION_CODE_RESENT", ip, "SUCCESS")
                       /\ req' = [req EXCEPT ![p] =
                                    [Done(r, 200) EXCEPT !.uid = user, !.msg = "ok",
                                        !.mail = sendVerificationEmail(delivered)]]
               /\ UNCHANGED <<user_sessions, user_devices, blocked_ips>>
       /\ UNCHANGED <<now, ticks, issued>>

\* ------------------------------------------- AuthController.forgotPassword
\* EmailService.sendPasswordResetEmail: best-effort, the flow goes on whether
\* or not the message was delivered
sendPasswordResetEmail(delivered) == IF delivered THEN "reset" ELSE "undelivered"

ForgotPassword_RevealsNotFound(p, ip, email, delivered) ==
    LET r == [IdleReq EXCEPT !.op = "forgot", !.ip = ip, !.email = email]
        user == findByEmail(email)
    IN /\ Free(p)
       /\ IF user = NoUser
          THEN /\ req' = [req EXCEPT ![p] = [Done(r, 404) EXCEPT !.msg = "NotFound"]]
               /\ UNCHANGED <<store, issued>>
          ELSE /\ Room(1)
               /\ nextTok <= MaxTokens
               /\ users' = update(users, user,
                              [reset_password_token |-> Sha256(nextTok),
                               reset_password_expire |-> now + CodeTTL])
               /\ user_activities' = logActivity(user_activities, user, NoSession,
                                         "PASSWORD_RESET_REQUESTED", ip, "SUCCESS")
               /\ issued' = Issue("reset", user)
               /\ req' = [req EXCEPT ![p] =
                            [Done(r, 200) EXCEPT !.uid = user, !.out = nextTok,
                                !.msg = "IfExists",
                                !.mail = sendPasswordResetEmail(delivered)]]
               /\ UNCHANGED <<user_sessions, user_devices, blocked_ips>>
       /\ UNCHANGED <<now, ticks>>

\* msg is the message of the response: "IfExists" stands for 'If an account
\* exists, password reset instructions have been sent'; out is the token
\* mailed to the user, never part of the response
ForgotPassword(p, ip, email, delivered) ==
    LET r == [IdleReq EXCEPT !.op = "forgot", !.ip = ip, !.email = email]
        user == findByEmail(email)
    IN /\ Free(p)
       /\ IF user = NoUser
          THEN /\ req' = [req EXCEPT ![p] = [Done(r, 200) EXCEPT !.msg = "IfExists"]]
               /\ UNCHANGED <<store, issued>>
          ELSE /\ Room(1)
               /\ nextTok <= MaxTokens
               /\ users' = update(users, user,
                              [reset_password_token |-> Sha256(nextTok),
                               reset_password_expire |-> now + CodeTTL])
               /\ user_activities' = logActivity(user_activities, user, NoSession,
                                         "PASSWORD_RESET_REQUESTED", ip, "SUCCESS")
               /\ issued' = Issue("reset", user)
               /\ req' = [req EXCEPT ![p] =
                            [Done(r, 200) EXCEPT !.uid = user, !.out = nextTok,
                                !.msg = "IfExists",
                                !.mail = sendPasswordResetEmail(delivered)]]
               /\ UNCHANGED <<user_sessions, user_devices, blocked_ips>>
       /\ UNCHANGED <<now, ticks>>

\* -------------------------------------------- AuthController.resetPassword
\* EmailService.sendPasswordChangedEmail: best-effort, the flow goes on
\* whether or not the message was delivered
sendPasswordChangedEmail(delivered) == IF delivered THEN "changed" ELSE "undelivered"

ResetPassword(p, ip, token, password, confirmation, delivered) ==
    LET r == [IdleReq EXCEPT !.op = "reset", !.ip = ip, !.token = token,
                             !.password = password]
        user == findByResetToken(Sha256(token))
    IN /\ Free(p)
       /\ IF password # confirmation \/ user = NoUser
          THEN /\ req' = [req EXCEPT ![p] = Done(r, 400)]
               /\ UNCHANGED store
          ELSE /\ Room(1)
               /\ users' = update(users, user,
                              [password |-> password,
                               reset_password_token |-> NoToken,
                               reset_password_expire |-> NoTime])
               /\ user_sessions' = invalidateAllUserSessions(user_sessions, user)
               /\ user_activities' = logActivity(user_activities, user, NoSession,
                                         "PASSWORD_RESET_COMPLETED", ip, "SUCCESS")
               /\ req' = [req EXCEPT ![p] =
                            [Done(r, 200) EXCEPT !.uid = user,
                                !.mail = sendPasswordChangedEmail(delivered)]]
               /\ UNCHANGED <<user_devices, blocked_ips>>
       /\ UNCHANGED <<now, ticks, issued>>

\* --------------------------------------------------- AuthController.logout
\* caller is the user who sends the request and callerSession the session
\* the user is logged in with (NoUser, NoSession: a request without a valid
\* access token); reqUser and reqSession are req.user and req.session as the
\* route's middleware chain leaves them
Logout(p, ip, caller, callerSession, reqUser, reqSession) ==
    LET r == [IdleReq EXCEPT !.op = "logout", !.ip = ip, !.uid = reqUser,
                             !.caller = caller, !.sid = callerSession]
    IN /\ Free(p)
       /\ IF reqUser = NoUser
          THEN /\ req' = [req EXCEPT ![p] = Done(r, 500)]
               /\ UNCHANGED store
          ELSE /\ Room(1)
               /\ users' = update(users, reqUser, [refresh_token |-> NoToken])
               /\ user_sessions' = IF reqSession # NoSession
                                   THEN invalidateSession(user_sessions, reqSession)
                                   ELSE user_sessions
               /\ user_activities' = logActivity(user_activities, reqUser, reqSession,
                                                 "LOGOUT", ip, "SUCCESS")
               /\ req' = [req EXCEPT ![p] = Done(r, 200)]
               /\ UNCHANGED <<user_devices, blocked_ips>>
       /\ UNCHANGED <<now, ticks, issued>>

\* ------------------------------------------ SessionManager.validateSession
ValidateSession_InclusiveExpiry(p, sessionToken) ==
    LET r == [IdleReq EXCEPT !.op = "validate", !.sid = sessionToken]
        session == ActiveSession(sessionToken)
    IN /\ Free(p)
       /\ IF session = NoSession
          THEN /\ req' = [req EXCEPT ![p] = Done(r, 401)]
               /\ UNCHANGED user_sessions
          ELSE IF user_sessions[session].expires_at <= now
          THEN /\ user_sessions' = invalidateSession(user_sessions, sessionToken)
               /\ req' = [req EXCEPT ![p] = Done(r, 401)]
          ELSE /\ req' = [req EXCEPT ![p] =
                            [Done(r, 200) EXCEPT !.uid = user_sessions[session].user_id]]
               /\ UNCHANGED user_sessions
       /\ UNCHANGED <<users, user_devices, user_activities, blocked_ips, now, ticks, issued>>

ValidateSession(p, sessionToken) ==
    LET r == [IdleReq EXCEPT !.op = "validate", !.sid = sessionToken]
        session == ActiveSession(sessionToken)
    IN /\ Free(p)
       /\ IF session = NoSession
          THEN /\ req' = [req EXCEPT ![p] = Done(r, 401)]
               /\ UNCHANGED user_sessions
          ELSE IF user_sessions[session].expires_at < now
          THEN /\ user_sessions' = invalidateSession(user_sessions, sessionToken)
               /\ req' = [req EXCEPT ![p] = Done(r, 401)]
          ELSE /\ req' = [req EXCEPT ![p] =
                            [Done(r, 200) EXCEPT !.uid = user_sessions[session].user_id]]
               /\ UNCHANGED user_sessions
       /\ UNCHANGED <<users, user_devices, user_activities, blocked_ips, now, ticks, issued>>

\* ---------------------------------------------------------- User.softDelete
SoftDelete(p, id) ==
    /\ Free(p)
    /\ id \in UserIds
    /\ users[id].deleted_at = NoTime
    /\ users' = [users EXCEPT ![id].deleted_at = now]
    /\ req' = [req EXCEPT ![p] = [Done(IdleReq, 200) EXCEPT !.op = "delete", !.uid = id]]
    /\ UNCHANGED <<user_sessions, user_devices, user_activities, blocked_ips,
                   now, ticks, issued>>

\* ------------------------------------------- SecurityUtils.isSuspiciousLocation
\* the argument values of a call: a point or null, and null or an array of
\* at most MaxPrevious points
MaxPrevious == 2
NewLocations == Points \cup {NoLocation}
PreviousLocations ==
    {JsNull} \cup {JsArray(items) : items \in UNION {[1..n -> Points] : n \in 0..MaxPrevious}}

\* one call per slot, with its arguments drawn from the sets above
InitLocation ==
    /\ users = << >>
    /\ user_sessions = << >>
    /\ user_devices = << >>
    /\ user_activities = << >>
    /\ blocked_ips = << >>
    /\ now = 0
    /\ ticks = 0
    /\ issued = << >>
    /\ \E l \in NewLocations, prev \in PreviousLocations :
          req = [p \in Procs |-> [IdleReq EXCEPT !.op = "locate", !.newLocation = l,
                                                 !.previousLocations = prev]]

\* the call returns (msg "true" or "false") or throws (msg "throw")
IsSuspiciousLocation(p) ==
    LET r == req[p]
    IN /\ r.op = "locate" /\ r.pc = "idle"
       /\ req' = [req EXCEPT ![p] =
                    [r EXCEPT !.pc = "done",
                              !.msg = isSuspiciousLocation(r.newLocation,
                                                           r.previousLocations)]]
       /\ UNCHANGED <<store, now, ticks, issued>>

\* ------------------------------------------------- routes/authRoutes.js
\* the email strings a client may type: an address and a case variant of it
TypedEmails == {"e1", "E1"}

\* express-validator normalizeEmail(): the address in lower case
normalizeEmail(email) == IF email = "E1" THEN "e1" ELSE email

\* the email a handler receives from its route: registerRules end in
\* normalizeEmail(), the rules of the other routes only trim and validate
registerRules(email) == normalizeEmail(email)
otherRules(email) == email

\* ------------------------------------------------------------- User.restore
\* the update of the tombstoned row with that id; .single() finds no row, and
\* restore throws, when the id is unknown or the user is not tombstoned
Restore(p, id) ==
    LET r == [IdleReq EXCEPT !.op = "restore", !.caller = id]
        rows == {i \in UserIds : i = id /\ users[i].deleted_at # NoTime}
    IN /\ Free(p)
       /\ IF rows = {}
          THEN /\ req' = [req EXCEPT ![p] = Done(r, 500)]
               /\ UNCHANGED users
          ELSE /\ users' = [users EXCEPT ![id].deleted_at = NoTime]
               /\ req' = [req EXCEPT ![p] = [Done(r, 200) EXCEPT !.uid = id]]
       /\ UNCHANGED <<user_sessions, user_devices, user_activities, blocked_ips,
                      now, ticks, issued>>

\* User.update called for id: the row is fetched by id alone, then updated
UserUpdate(p, id, updateData) ==
    LET r == [IdleReq EXCEPT !.op = "update", !.caller = id]
        existingUsers == {i \in UserIds : i = id}
    IN /\ Free(p)
       /\ IF existingUsers = {}
          THEN /\ req' = [req EXCEPT ![p] = Done(r, 500)]
               /\ UNCHANGED users
          ELSE /\ users' = update(users, id, updateData)
               /\ req' = [req EXCEPT ![p] = [Done(r, 200) EXCEPT !.uid = id]]
       /\ UNCHANGED <<user_sessions, user_devices, user_activities, blocked_ips,
                      now, ticks, issued>>

\* AuthMiddleware.protect: id is the user id carried by the access token of
\* the request (NoUser: no token, or one that jwt.verify rejects); status 200
\* stands for next()
Protect(p, id) ==
    LET r == [IdleReq EXCEPT !.op = "protect", !.caller = id]
        user == Single({i \in UserIds : i = id})
    IN /\ Free(p)
       /\ req' = [req EXCEPT ![p] =
            IF id = NoUser \/ user = NoUser THEN Done(r, 401)
            ELSE [Done(r, 200) EXCEPT !.uid = user]]
       /\ UNCHANGED <<store, now, ticks, issued>>

\* -------------------------------------------------------- User.updateWallet
\* a balance read from the row is a number, never null
IsNull(balance) == FALSE

\* the check made on the result of a subtraction
insufficientBalance(newBalance) == newBalance < 0 /\ IsNull(newBalance)

\* the read of wallet_balance, the new balance and the checks on it
WalletRead(p, id, amount, type) ==
    LET r == [IdleReq EXCEPT !.op = "wallet", !.caller = id, !.amount = amount,
                             !.type = type]
        user == Single({i \in UserIds : i = id /\ users[i].deleted_at = NoTime})
        newBalance == IF type = "add" THEN users[user].wallet_balance + amount
                      ELSE users[user].wallet_balance - amount
    IN /\ Free(p)
       /\ req' = [req EXCEPT ![p] =
            IF user = NoUser THEN Done(r, 500)
            ELSE IF type = "subtract" /\ insufficientBalance(newBalance)
                 THEN [Done(r, 500) EXCEPT !.uid = user, !.msg = "InsufficientBalance"]
            ELSE IF type \notin {"add", "subtract"}
                 THEN [Done(r, 500) EXCEPT !.uid = user]
            ELSE [r EXCEPT !.pc = "uw_write", !.uid = user, !.newBalance = newBalance]]
       /\ (user # NoUser /\ type \in {"add", "subtract"}) =>
             (newBalance <= MaxBalance /\ newBalance >= 0 - MaxBalance)
       /\ UNCHANGED <<store, now, ticks, issued>>

\* the update of wallet_balance on the row with that id
WalletWrite(p) ==
    /\ req[p].pc = "uw_write"
    /\ users' = [users EXCEPT ![req[p].uid].wallet_balance = req[p].newBalance]
    /\ req' = [req EXCEPT ![p] = Done(req[p], 200)]
    /\ UNCHANGED <<user_sessions, user_devices, user_activities, blocked_ips,
                   now, ticks, issued>>

\* tokens a client can present: every token issued so far and a forged one
Presentable == 1..(nextTok - 1) \cup {MaxTokens + 1}

LoginSteps(p) ==
    \/ LoginFind(p)
    \/ LoginFailLog(p)
    \/ LoginCount(p)
    \/ LoginBlock(p)
    \/ LoginDevice(p)
    \/ LoginSession(p)
    \/ LoginSessLog(p)
    \/ LoginCheck(p)
    \/ LoginCatch(p)

RefreshSteps(p) ==
    \/ RefreshWrite(p)
    \/ RefreshLog(p)

\* one request at a time: a handler starts when no request is in flight
NextTokens ==
    \/ AllFree /\ \E ip \in Ips, pw \in RegPasswords, c \in RegCodes :
          Register(1, ip, "e1", pw, c, TRUE)
    \/ AllFree /\ \E c \in RegCodes : VerifyEmail(1, "a1", "e1", c, TRUE)
    \/ AllFree /\ \E e \in Emails, pw \in Passwords : LoginGate(1, "a1", e, pw)
    \/ LoginSteps(1)
    \/ AllFree /\ \E t \in Presentable : RefreshFind(1, "a1", t)
    \/ RefreshSteps(1)
    \/ AllFree /\ \E u \in UserIds : Logout(1, "a1", u, NoSession, NoUser, NoSession)
    \/ AllFree /\ \E id \in UserIds : SoftDelete(1, id)

SpecTokens == Init /\ [][NextTokens]_vars

NextReset ==
    \/ AllFree /\ Tick
    \/ AllFree /\ \E ip \in Ips, pw \in RegPasswords, c \in RegCodes :
          Register(1, ip, "e1", pw, c, TRUE)
    \/ AllFree /\ \E e \in Emails : ForgotPassword(1, "a1", e, TRUE)
    \/ AllFree /\ \E t \in Presentable, pw \in Passwords :
          ResetPassword(1, "a1", t, pw, pw, TRUE)
    \/ AllFree /\ \E t \in Presentable : RefreshFind(1, "a1", t)
    \/ RefreshSteps(1)
    \/ AllFree /\ \E s \in 1..Len(user_sessions) : ValidateSession(1, s)

SpecReset == Init /\ [][NextReset]_vars

NextLogin ==
    \/ AllFree /\ \E ip \in Ips, e \in Emails, pw \in RegPasswords, c \in RegCodes :
          Register(1, ip, e, pw, c, TRUE)
    \/ AllFree /\ \E c \in RegCodes : VerifyEmail(1, "a1", "e1", c, TRUE)
    \/ AllFree /\ \E ip \in Ips, e \in Emails, pw \in Passwords : LoginGate(1, ip, e, pw)
    \/ LoginSteps(1)
    \/ AllFree /\ \E id \in UserIds : SoftDelete(1, id)

SpecLogin == Init /\ [][NextLogin]_vars

\* requests overlap: every await of a handler is a point where the other
\* request may run
NextRefreshRace ==
    \/ AllFree /\ \E pw \in RegPasswords, c \in RegCodes : Register(1, "a1", "e1", pw, c, TRUE)
    \/ \E p \in Procs, t \in Presentable : RefreshFind(p, "a1", t)
    \/ \E p \in Procs : RefreshSteps(p)

SpecRefreshRace == Init /\ [][NextRefreshRace]_vars

\* concurrent logins against an empty users table: only the failure path
\* of login is enabled
NextGuardRace ==
    \/ \E p \in Procs, ip \in Ips : LoginGate(p, ip, "e2", "p1")
    \/ \E p \in Procs : LoginFind(p) \/ LoginFailLog(p) \/ LoginCount(p) \/ LoginBlock(p)

SpecGuardRace == Init /\ [][NextGuardRace]_vars

\* the sessions of user u
SessionsOf(u) ==
    {user_sessions[i].session_token : i \in
        {j \in 1..Len(user_sessions) : user_sessions[j].user_id = u}}

\* sessions over more than a day: created by register and login, looked up
\* by validateSession, with refresh and logout requests in between
NextSessions ==
    \/ AllFree /\ TickDay
    \/ AllFree /\ \E pw \in RegPasswords, c \in RegCodes : Register(1, "a1", "e1", pw, c, TRUE)
    \/ AllFree /\ \E c \in RegCodes : VerifyEmail(1, "a1", "e1", c, TRUE)
    \/ AllFree /\ LoginGate(1, "a1", "e1", "p1")
    \/ LoginSteps(1)
    \/ AllFree /\ \E s \in 1..(Len(user_sessions) + 1) : ValidateSession(1, s)
    \/ AllFree /\ \E t \in Presentable : RefreshFind(1, "a1", t)
    \/ RefreshSteps(1)
    \/ AllFree /\ \E ip \in Ips, u \in UserIds : \E s \in SessionsOf(u) :
          Logout(1, ip, u, s, NoUser, NoSession)
    \/ AllFree /\ \E ip \in Ips : Logout(1, ip, NoUser, NoSession, NoUser, NoSession)

SpecSessions == Init /\ [][NextSessions]_vars

\* verification requests one at a time, with codes that expire
NextVerify ==
    \/ AllFree /\ Tick
    \/ AllFree /\ \E pw \in RegPasswords, c \in RegCodes : Register(1, "a1", "e1", pw, c, TRUE)
    \/ AllFree /\ \E e \in Emails, c \in Codes, d \in BOOLEAN :
          VerifyEmail(1, "a1", e, c, d)
    \/ AllFree /\ \E c \in Codes : ResendVerification(1, "a1", "e1", c, TRUE)
    \/ AllFree /\ \E id \in UserIds : SoftDelete(1, id)

SpecVerify == Init /\ [][NextVerify]_vars

\* verification requests that overlap
NextVerifyRace ==
    \/ AllFree /\ \E pw \in RegPasswords, c \in RegCodes : Register(1, "a1", "e1", pw, c, TRUE)
    \/ \E p \in Procs, ip \in Ips, e \in Emails, c \in Codes : VerifyRead(p, ip, e, c)
    \/ \E p \in Procs : VerifyWrite(p)
    \/ \E p \in Procs : VerifyLog(p)

SpecVerifyRace == Init /\ [][NextVerifyRace]_vars

\* every flow that sends a message, with deliveries that may fail
NextNotify ==
    \/ AllFree /\ \E pw \in RegPasswords, c \in RegCodes, d \in BOOLEAN :
          Register(1, "a1", "e1", pw, c, d)
    \/ AllFree /\ \E c \in RegCodes, d \in BOOLEAN : VerifyEmail(1, "a1", "e1", c, d)
    \/ AllFree /\ \E c \in Codes, d \in BOOLEAN : ResendVerification(1, "a1", "e1", c, d)
    \/ AllFree /\ \E e \in Emails, d \in BOOLEAN : ForgotPassword(1, "a1", e, d)
    \/ AllFree /\ \E t \in Presentable, d \in BOOLEAN :
          ResetPassword(1, "a1", t, "p2", "p2", d)
    \/ AllFree /\ LoginGate(1, "a1", "e1", "p1")
    \/ LoginSteps(1)
    \/ AllFree /\ \E id \in UserIds : SoftDelete(1, id)

SpecNotify == Init /\ [][NextNotify]_vars

\* register requests that overlap
NextRegisterRace ==
    \/ \E p \in Procs, ip \in Ips, e \in Emails, pw \in RegPasswords :
          RegisterRead(p, ip, e, pw)
    \/ \E p \in Procs, c \in RegCodes, d \in BOOLEAN : RegisterWrite(p, c, d)

SpecRegisterRace == Init /\ [][NextRegisterRace]_vars

\* every lookup of a user, with users that are soft-deleted in between
NextTombstone ==
    \/ AllFree /\ \E pw \in RegPasswords, c \in RegCodes : Register(1, "a1", "e1", pw, c, TRUE)
    \/ AllFree /\ \E id \in UserIds : SoftDelete(1, id)
    \/ AllFree /\ \E c \in RegCodes : VerifyEmail(1, "a1", "e1", c, TRUE)
    \/ AllFree /\ LoginGate(1, "a1", "e1", "p1")
    \/ LoginSteps(1)
    \/ AllFree /\ ForgotPassword(1, "a1", "e1", TRUE)
    \/ AllFree /\ \E t \in Presentable : ResetPassword(1, "a1", t, "p2", "p2", TRUE)
    \/ AllFree /\ \E t \in Presentable : RefreshFind(1, "a1", t)
    \/ RefreshSteps(1)
    \/ AllFree /\ \E id \in 1..MaxUsers : UserUpdate(1, id, [verified |-> TRUE])
    \/ AllFree /\ \E id \in 0..MaxUsers : Protect(1, id)

SpecTombstone == Init /\ [][NextTombstone]_vars

\* updateWallet calls that overlap
NextWallet ==
    \/ AllFree /\ \E pw \in RegPasswords, c \in RegCodes : Register(1, "a1", "e1", pw, c, TRUE)
    \/ \E p \in Procs, id \in 1..MaxUsers, amount \in Amounts, type \in WalletTypes :
          WalletRead(p, id, amount, type)
    \/ \E p \in Procs : WalletWrite(p)

SpecWallet == Init /\ [][NextWallet]_vars

\* a token value chosen by the caller of a profile update
ChosenToken == 99

\* request bodies of a profile update
UpdateBodies ==
    {[verified |-> TRUE], [verification_code |-> "c2"],
     [refresh_token |-> ChosenToken], [reset_password_token |-> ChosenToken],
     [role |-> "admin", wallet_balance |-> 2]}

\* accounts created by both registration handlers, then verified or updated
NextAccounts ==
    \/ AllFree /\ \E e \in Emails, pw \in RegPasswords, x \in BodyExtras :
          CreateUser(1, [email |-> e, password |-> pw] @@ x)
    \/ AllFree /\ \E pw \in RegPasswords, c \in RegCodes :
          Register(1, "a1", "e1", pw, c, TRUE)
    \/ AllFree /\ \E c \in Codes : VerifyEmail(1, "a1", "e1", c, TRUE)
    \/ AllFree /\ \E id \in 1..MaxUsers, b \in UpdateBodies : UserUpdate(1, id, b)

SpecAccounts == Init /\ [][NextAccounts]_vars

\* logins that fail on their credentials and logins that are admitted, for
\* a user created by createUser and marked verified by a profile update
NextThreshold ==
    \/ AllFree /\ \E pw \in RegPasswords :
          CreateUser(1, [email |-> "e1", password |-> pw])
    \/ AllFree /\ \E id \in 1..MaxUsers : UserUpdate(1, id, [verified |-> TRUE])
    \/ AllFree /\ \E ip \in Ips, pw \in Passwords : LoginGate(1, ip, "e1", pw)
    \/ LoginSteps(1)

SpecThreshold == Init /\ [][NextThreshold]_vars

\* logins of one user that overlap, each through createSession
NextDeviceRace ==
    \/ AllFree /\ \E pw \in RegPasswords, c \in RegCodes :
          Register(1, "a1", "e1", pw, c, TRUE)
    \/ AllFree /\ \E c \in RegCodes : VerifyEmail(1, "a1", "e1", c, TRUE)
    \/ \E p \in Procs, ip \in Ips, pw \in RegPasswords : LoginGate(p, ip, "e1", pw)
    \/ \E p \in Procs :
          \/ LoginFind(p)
          \/ DeviceRead(p)
          \/ DeviceWrite(p)
          \/ LoginSession(p)
          \/ LoginSessLog(p)
          \/ LoginCheck(p)
          \/ LoginCatch(p)

SpecDeviceRace == Init /\ [][NextDeviceRace]_vars

\* accounts that are registered, removed and restored
NextRestore ==
    \/ AllFree /\ \E ip \in Ips, e \in Emails, pw \in RegPasswords, c \in RegCodes :
          Register(1, ip, e, pw, c, TRUE)
    \/ AllFree /\ \E id \in UserIds : SoftDelete(1, id)
    \/ AllFree /\ \E id \in 1..MaxUsers : Restore(1, id)
    \/ AllFree /\ Tick

SpecRestore == Init /\ [][NextRestore]_vars

\* calls of isSuspiciousLocation
NextLocation == \E p \in Procs : IsSuspiciousLocation(p)

SpecLocation == InitLocation /\ [][NextLocation]_vars

\* the auth routes, called with emails as the client typed them
NextEmailCase ==
    \/ AllFree /\ \E e \in TypedEmails, pw \in RegPasswords, c \in RegCodes :
          Register(1, "a1", registerRules(e), pw, c, TRUE)
    \/ AllFree /\ \E e \in TypedEmails, pw \in RegPasswords :
          LoginGate(1, "a1", otherRules(e), pw)
    \/ LoginSteps(1)
    \/ AllFree /\ \E e \in TypedEmails, c \in RegCodes :
          VerifyEmail(1, "a1", otherRules(e), c, TRUE)
    \/ AllFree /\ \E e \in TypedEmails, c \in Codes :
          ResendVerification(1, "a1", otherRules(e), c, TRUE)
    \/ AllFree /\ \E e \in TypedEmails : ForgotPassword(1, "a1", otherRules(e), TRUE)

SpecEmailCase == Init /\ [][NextEmailCase]_vars

\* ================================================================ claims

\* the non-tombstoned users whose stored refresh token is t
LiveOwner(t) ==
    {i \in UserIds : users[i].refresh_token = t /\ users[i].deleted_at = NoTime}

\* slot p takes the first step of a refreshToken request
RefreshLookup(p) ==
    Free(p) /\ req'[p].op = "refresh" /\ req'[p] # req[p]

C1_Step ==
    \A p \in Procs : RefreshLookup(p) =>
        IF LiveOwner(req'[p].token) # {}
        THEN req'[p].pc = "rt_write" /\ req'[p].uid \in LiveOwner(req'[p].token)
        ELSE /\ req'[p].pc = "done" /\ req'[p].status = 401
             /\ UNCHANGED <<store, issued>>

C1_Outcome ==
    \A p \in Procs : (req[p].op = "refresh" /\ req[p].pc = "done") =>
        /\ req[p].status \in {200, 401}
        /\ req[p].status = 200 <=> req[p].uid # NoUser

C1_Latest ==
    AllFree =>
      \A t \in 1..Len(issued) :
        (issued[t].kind = "refresh" /\ LiveOwner(t) # {}) =>
           /\ LiveOwner(t) = {issued[t].uid}
           /\ \A t2 \in (t + 1)..Len(issued) :
                 ~(issued[t2].kind = "refresh" /\ issued[t2].uid = issued[t].uid)

\* slot p takes the (single) step of a logout request
LogoutArrives(p) ==
    Free(p) /\ req'[p].op = "logout" /\ req'[p] # req[p]

\* after a logout request of user U no refresh token issued to U before it
\* is stored on a non-tombstoned user
C1_Logout ==
    \A p \in Procs : LogoutArrives(p) =>
       \A t \in 1..Len(issued) :
          (issued[t].kind = "refresh" /\ issued[t].uid = req'[p].caller) =>
             \A i \in 1..Len(users') :
                ~(users'[i].refresh_token = t /\ users'[i].deleted_at = NoTime)

\* C1: a refresh token presented to refreshToken is accepted iff it is the
\* value stored on a non-tombstoned user; a rejected token gets 401 and
\* changes nothing; once a later register or refresh has issued a token to
\* the same user, or the user has logged out, no earlier token of that user
\* is accepted
C1_RefreshAcceptedIffStored ==
    [](C1_Latest /\ C1_Outcome) /\ [][C1_Step /\ C1_Logout]_vars

\* C2: of two concurrent refreshToken requests presenting the same token,
\* at most one returns success
C2_AtMostOneRefreshSucceeds ==
    ~ /\ req[1].op = "refresh" /\ req[2].op = "refresh"
      /\ req[1].token = req[2].token
      /\ req[1].pc = "done" /\ req[2].pc = "done"
      /\ req[1].status = 200 /\ req[2].status = 200

\* completed failed logins of address a inside the counting window
FailedLogins(a) ==
    Cardinality({i \in 1..Len(user_activities) :
                    /\ user_activities[i].ip_address = a
                    /\ user_activities[i].activity_type = "LOGIN_FAILED"
                    /\ user_activities[i].status = "FAILED"
                    /\ user_activities[i].created_at >= now - FailWindow})

\* slot p takes the first step (the admission gate) of a login request
LoginArrives(p) ==
    Free(p) /\ req'[p].op = "login" /\ req'[p] # req[p]

\* C3: once five failed logins from address A inside the window have been
\* processed, whatever their interleaving, every later login from A is
\* rejected with 403 at the gate, before any user lookup
C3_FiveFailuresBlock ==
    [][\A p \in Procs :
         (AllFree /\ LoginArrives(p) /\ FailedLogins(req'[p].ip) >= FailThreshold)
            => (req'[p].pc = "done" /\ req'[p].status = 403)]_vars

\* C4: blocking is monotonic: an address that isIpBlocked reports blocked is
\* reported blocked in every later state
C4_BlockIsMonotonic ==
    [][\A a \in Ips : isIpBlocked(a) => isIpBlocked(a)']_vars

\* slot p takes the (single) step of a resetPassword request
ResetArrives(p) ==
    Free(p) /\ req'[p].op = "reset" /\ req'[p] # req[p]

\* the users for whom forgotPassword stored the hash of plaintext token t
\* with an expiry that has not passed / that has passed
ValidResetFor(t) ==
    {u \in UserIds : /\ users[u].reset_password_token = Sha256(t)
                     /\ users[u].deleted_at = NoTime
                     /\ now <= users[u].reset_password_expire}

ExpiredResetFor(t) ==
    {u \in UserIds : /\ users[u].reset_password_token = Sha256(t)
                     /\ now > users[u].reset_password_expire}

\* C5: once resetPassword has been carried out for user U with U's unexpired
\* reset token, every session of U that was active before is inactive
C5_ResetInvalidatesSessions ==
    [][\A p \in Procs : ResetArrives(p) =>
         \A u \in ValidResetFor(req'[p].token) :
           \A s \in 1..Len(user_sessions) :
             (user_sessions[s].user_id = u /\ user_sessions[s].is_active)
                => ~user_sessions'[s].is_active]_vars

\* C6: once resetPassword has been carried out for user U with U's unexpired
\* reset token, the refresh token U held before is no longer accepted
C6_ResetRevokesRefreshToken ==
    [][\A p \in Procs : ResetArrives(p) =>
         \A u \in ValidResetFor(req'[p].token) :
           users[u].refresh_token # NoToken =>
             \A i \in 1..Len(users') :
               ~(users'[i].refresh_token = users[u].refresh_token
                 /\ users'[i].deleted_at = NoTime)]_vars

\* C7: resetPassword with a token whose stored expiry is in the past fails
\* with 400 (invalid or expired) and changes nothing
C7_ExpiredResetTokenRejected ==
    [][\A p \in Procs :
         (ResetArrives(p) /\ ExpiredResetFor(req'[p].token) # {}) =>
            /\ req'[p].pc = "done" /\ req'[p].status = 400
            /\ UNCHANGED <<store, issued>>]_vars

\* a token issued by forgotPassword was presented after its expiry and rejected
C7_Witness ==
    /\ req[1].op = "reset" /\ req[1].pc = "done" /\ req[1].status = 400
    /\ ExpiredResetFor(req[1].token) # {}

\* C8: the plaintext token issued by forgotPassword, presented to
\* resetPassword with a new password before expiry, is accepted; afterwards
\* exactly the new password passes the password check
C8_ResetRoundTrip ==
    [][\A p \in Procs : ResetArrives(p) =>
         \A u \in ValidResetFor(req'[p].token) :
           /\ req'[p].status = 200
           /\ \A pw \in Passwords :
                comparePassword(pw, users'[u].password) <=> pw = req'[p].password]_vars

\* reset token t was issued and a later reset token went to the same user
Superseded(t) ==
    /\ t \in 1..Len(issued)
    /\ issued[t].kind = "reset"
    /\ \E t2 \in (t + 1)..Len(issued) :
          issued[t2].kind = "reset" /\ issued[t2].uid = issued[t].uid

C9_Inv ==
    \A u \in UserIds :
       Cardinality({t \in Presentable : findByResetToken(Sha256(t)) = u}) <= 1

C9_Step ==
    \A p \in Procs : ResetArrives(p) =>
       /\ Superseded(req'[p].token) =>
             (req'[p].status = 400 /\ UNCHANGED <<store, issued>>)
       /\ req'[p].status = 200 =>
             \A i \in 1..Len(users') :
                ~(users'[i].reset_token = Sha256(req'[p].token)
                  \/ users'[i].reset_password_token = Sha256(req'[p].token))

\* C9: at most one reset token is accepted per user; the token of an earlier
\* forgotPassword is rejected after a second forgotPassword; a token that a
\* successful resetPassword consumed is not stored any more
C9_OneResetTokenOnce ==
    []C9_Inv /\ [][C9_Step]_vars

\* after a second forgotPassword the first token was presented and rejected
C9_Witness ==
    /\ req[1].op = "reset" /\ req[1].pc = "done" /\ req[1].status = 400
    /\ Superseded(req[1].token)

PostCheck == {"lg_devread", "lg_session", "lg_sesslog", "lg_check", "lg_catch"}

\* the login request r carries the email and password of a verified,
\* non-tombstoned user and comes from an address without a block row
LoginAdmissible(r) ==
    /\ \A i \in 1..Len(blocked_ips) : blocked_ips[i].ip # r.ip
    /\ r.uid \in UserIds
    /\ users[r.uid].email = r.email
    /\ users[r.uid].deleted_at = NoTime
    /\ users[r.uid].password = hashPassword(r.password)
    /\ users[r.uid].verified

C10_Inv ==
    \A p \in Procs :
       (req[p].op = "login" /\ req[p].pc \in PostCheck) => LoginAdmissible(req[p])

C10_Step ==
    \A p \in Procs :
       (req[p].op = "login" /\ ~Free(p)) =>
          /\ (user_sessions' # user_sessions \/ users' # users \/ issued' # issued)
                => req[p].pc \in PostCheck
          /\ (req'[p].pc = "done" /\ req'[p].status = 403)
                => UNCHANGED <<store, issued>>
          /\ ( /\ req[p].pc = "lg_find"
               /\ \E u \in UserIds : /\ users[u].email = req[p].email
                                     /\ users[u].deleted_at = NoTime
                                     /\ ~users[u].verified
                                     /\ users[u].password = hashPassword(req[p].password) )
                => (req'[p].pc = "done" /\ req'[p].status = 403)

VerifyArrives(p) ==
    Free(p) /\ req'[p].op = "verify" /\ req'[p] # req[p]

\* the non-tombstoned users with email e
LiveByEmail(e) ==
    {u \in UserIds : users[u].email = e /\ users[u].deleted_at = NoTime}

\* slot p answered with the given outcome and status
Answered(p, outcome, status) ==
    req'[p].pc = "done" /\ req'[p].msg = outcome /\ req'[p].status = status

\* C11: verifyEmail answers NotFound when no non-tombstoned user has the
\* email, else AlreadyDone when the user is verified, else InvalidCode when
\* the stored code is absent or differs, else Expired when now is later than
\* the stored expiry, else success; every failing outcome leaves the users
\* unchanged
C11_VerifyDecisionTable ==
    [][\A p \in Procs : VerifyArrives(p) =>
        IF LiveByEmail(req'[p].email) = {}
        THEN Answered(p, "NotFound", 404) /\ UNCHANGED users
        ELSE \A u \in LiveByEmail(req'[p].email) :
           IF users[u].verified
           THEN Answered(p, "AlreadyDone", 400) /\ UNCHANGED users
           ELSE IF users[u].verification_code = NoCode
                   \/ users[u].verification_code # req'[p].code
           THEN Answered(p, "InvalidCode", 400) /\ UNCHANGED users
           ELSE IF now > users[u].verification_code_expires
           THEN Answered(p, "Expired", 400) /\ UNCHANGED users
           ELSE Answered(p, "ok", 200) /\ users'[u].verified]_vars

\* the right code was presented after its expiry and refused as expired
C11_Witness ==
    /\ req[1].op = "verify" /\ req[1].pc = "done" /\ req[1].msg = "Expired"
    /\ req[1].uid \in UserIds
    /\ users[req[1].uid].verification_code = req[1].code
    /\ now > users[req[1].uid].verification_code_expires

C12_Inv ==
    \A u \in UserIds : users[u].verified =>
        /\ users[u].verification_code = NoCode
        /\ users[u].verification_code_expires = NoTime
        /\ users[u].email_verified_at # NoTime

C12_Step ==
    /\ \A u \in UserIds : users[u].verified => users'[u].verified
    /\ \A p \in Procs : VerifyArrives(p) =>
          /\ req'[p].status = 200 =>
                /\ req'[p].uid \in UserIds
                /\ users'[req'[p].uid].verified
                /\ users'[req'[p].uid].email_verified_at = now
          /\ \A u \in LiveByEmail(req'[p].email) :
                users[u].verified => Answered(p, "AlreadyDone", 400)

\* C12: a user whose verifyEmail succeeded has verified = true, no stored
\* code or expiry and email_verified_at set, stays verified, and every later
\* verifyEmail that finds the user, whatever the code, answers AlreadyDone
C12_VerifiedIsFinal ==
    []C12_Inv /\ [][C12_Step]_vars

\* a verified user presented a code again and got AlreadyDone
C12_Witness ==
    /\ req[1].op = "verify" /\ req[1].pc = "done" /\ req[1].msg = "AlreadyDone"
    /\ req[1].uid \in UserIds
    /\ users[req[1].uid].verified
    /\ users[req[1].uid].email_verified_at # NoTime

\* C13: of two concurrent verifyEmail requests with the same code for the
\* same unverified user at most one answers success
C13_CodeIsOneTime ==
    ~ /\ req[1].op = "verify" /\ req[2].op = "verify"
      /\ req[1].email = req[2].email /\ req[1].code = req[2].code
      /\ req[1].pc = "done" /\ req[2].pc = "done"
      /\ req[1].status = 200 /\ req[2].status = 200

\* slot p takes the (single) step of a resendVerification request
ResendArrives(p) ==
    Free(p) /\ req'[p].op = "resend" /\ req'[p] # req[p]

C14_Inv ==
    \A u \in UserIds :
       Cardinality({c \in Codes : findByEmail(users[u].email) = u
                                  /\ verifyOutcome(u, c) = "ok"}) <= 1

C14_Step ==
    \A p \in Procs :
       /\ ResendArrives(p) =>
             \A u \in LiveByEmail(req'[p].email) : ~users[u].verified =>
                /\ req'[p].status = 200
                /\ users'[u].verification_code = req'[p].code
                /\ users'[u].verification_code_expires = now + CodeTTL
       /\ VerifyArrives(p) =>
             \A u \in LiveByEmail(req'[p].email) :
                (~users[u].verified /\ users[u].verification_code # req'[p].code)
                   => Answered(p, "InvalidCode", 400) /\ UNCHANGED users

\* C14: an unverified user has at most one acceptable code; resendVerification
\* stores the new code with expiry now + 30 minutes, and verifyEmail with a
\* code other than the stored one answers InvalidCode, expired or not
C14_ResendReplacesCode ==
    []C14_Inv /\ [][C14_Step]_vars

\* the code sent at registration, still inside its 30 minutes, was refused
\* after a resend had replaced it
C14_Witness ==
    /\ req[1].op = "verify" /\ req[1].pc = "done" /\ req[1].msg = "InvalidCode"
    /\ req[1].code \in RegCodes
    /\ req[1].uid \in UserIds
    /\ users[req[1].uid].verification_code \notin RegCodes \cup {NoCode}
    /\ ticks = 0

C15_Inv ==
    \A i \in 1..Len(user_sessions) :
       user_sessions[i].expires_at = user_sessions[i].created_at + SessionTTL

C15_Step ==
    /\ Len(user_sessions') >= Len(user_sessions)
    /\ \A i \in 1..Len(user_sessions) :
          /\ user_sessions'[i].expires_at = user_sessions[i].expires_at
          /\ user_sessions'[i].created_at = user_sessions[i].created_at

\* C15: every session's expires_at is its creation time + 24 hours, and no
\* operation changes the expires_at of a session that exists
C15_SessionExpiryFixed ==
    []C15_Inv /\ [][C15_Step]_vars

\* a session created after the clock had advanced was looked up and found valid
C15_Witness ==
    /\ req[1].op = "validate" /\ req[1].pc = "done" /\ req[1].status = 200
    /\ req[1].sid \in 1..Len(user_sessions)
    /\ user_sessions[req[1].sid].created_at > 0

\* slot p carries out a validateSession call
ValidateArrives(p) ==
    /\ Free(p) /\ req'[p].op = "validate" /\ req'[p].pc = "done"
    /\ (req'[p] # req[p] \/ store' # store)

\* the active rows with session token t
ActiveRows(t) ==
    {i \in 1..Len(user_sessions) :
        user_sessions[i].session_token = t /\ user_sessions[i].is_active}

\* C16: validateSession on an active session past its expires_at answers
\* invalid and sets exactly that session inactive; on a session that is not
\* active (a second call included) it answers invalid and changes nothing; on
\* an active session with now <= expires_at it returns the session and changes
\* nothing
C16_ValidateSession ==
    [][\A p \in Procs : ValidateArrives(p) =>
        IF ActiveRows(req'[p].sid) = {}
        THEN req'[p].status = 401 /\ UNCHANGED store
        ELSE \A i \in ActiveRows(req'[p].sid) :
           IF now > user_sessions[i].expires_at
           THEN /\ req'[p].status = 401
                /\ user_sessions' = [user_sessions EXCEPT ![i].is_active = FALSE]
                /\ UNCHANGED <<users, user_devices, user_activities, blocked_ips>>
           ELSE /\ req'[p].status = 200
                /\ req'[p].uid = user_sessions[i].user_id
                /\ UNCHANGED store]_vars

\* an expired session was looked up, answered invalid and is now inactive
C16_Witness ==
    /\ req[1].op = "validate" /\ req[1].pc = "done" /\ req[1].status = 401
    /\ req[1].sid \in 1..Len(user_sessions)
    /\ ~user_sessions[req[1].sid].is_active
    /\ now > user_sessions[req[1].sid].expires_at

C17_Inv ==
    \A i \in 1..Len(user_sessions) :
       ~user_sessions[i].is_active =>
          invalidateSession(user_sessions, user_sessions[i].session_token) = user_sessions

C17_Step ==
    /\ Len(user_sessions') >= Len(user_sessions)
    /\ \A i \in 1..Len(user_sessions) :
          /\ user_sessions'[i].session_token = user_sessions[i].session_token
          /\ ~user_sessions[i].is_active => ~user_sessions'[i].is_active

\* C17: a session that is inactive stays inactive, no session row is
\* removed, and invalidateSession on an inactive session changes nothing
C17_InactiveIsTerminal ==
    []C17_Inv /\ [][C17_Step]_vars

\* a session is inactive and a later request of another kind has completed
C17_Witness ==
    /\ \E i \in 1..Len(user_sessions) : ~user_sessions[i].is_active
    /\ req[1].pc = "done" /\ req[1].op \in {"register", "login", "refresh", "logout"}

\* C18: a logout by a user logged in with session S succeeds, clears the
\* user's stored refresh token and leaves S inactive
C18_LogoutClearsTokenAndSession ==
    [][\A p \in Procs :
         ( /\ LogoutArrives(p)
           /\ req'[p].caller \in UserIds
           /\ req'[p].sid \in ActiveRows(req'[p].sid) ) =>
            /\ req'[p].status = 200
            /\ users'[req'[p].caller].refresh_token = NoToken
            /\ ~user_sessions'[req'[p].sid].is_active]_vars

\* C19: a logout request without a valid access token is answered 401 and
\* changes nothing; a logout that changes state comes from a logged-in user
C19_LogoutNeedsAccessToken ==
    [][\A p \in Procs : LogoutArrives(p) =>
         /\ req'[p].caller = NoUser => (req'[p].status = 401 /\ UNCHANGED store)
         /\ store' # store => req'[p].caller \in UserIds]_vars

\* C20: a logout by a user whose previous request was a logout succeeds and
\* changes nothing
C20_LogoutIdempotent ==
    [][\A p \in Procs :
         ( /\ LogoutArrives(p)
           /\ req[p].op = "logout" /\ req[p].pc = "done"
           /\ req'[p].caller \in UserIds
           /\ req[p].caller = req'[p].caller ) =>
            (req'[p].status = 200 /\ UNCHANGED store)]_vars

RegisterArrives(p) ==
    Free(p) /\ req'[p].op = "register" /\ req'[p] # req[p]

C22_Step ==
    \A p \in Procs : (RegisterArrives(p) /\ ~isIpBlocked(req'[p].ip)) =>
        IF LiveByEmail(req'[p].email) = {}
        THEN LET id == Len(users) + 1
                 s == Len(user_sessions) + 1
             IN /\ req'[p].status = 201 /\ req'[p].uid = id
                /\ Len(users') = id
                /\ users'[id].email = req'[p].email
                /\ users'[id].verified = FALSE
                /\ users'[id].verification_code # NoCode
                /\ users'[id].verification_code_expires = now + CodeTTL
                /\ users'[id].deleted_at = NoTime
                /\ \A i \in UserIds : users'[i] = users[i]
                /\ Len(user_sessions') = s
                /\ user_sessions'[s].user_id = id /\ user_sessions'[s].is_active
                /\ \A i \in 1..Len(user_sessions) : user_sessions'[i] = user_sessions[i]
                /\ req'[p].out # NoToken
                /\ users'[id].refresh_token = req'[p].out
                /\ Len(issued') = Len(issued) + 1 /\ req'[p].out = Len(issued')
        ELSE /\ req'[p].status = 400 /\ req'[p].msg = "DuplicateEmail"
             /\ UNCHANGED <<users, user_sessions, issued>>

C23_RegisterRace ==
    /\ \A e \in Emails : Cardinality(LiveByEmail(e)) <= 1
    /\ \A p \in Procs : (req[p].op = "register" /\ req[p].pc = "done"
                         /\ req[p].status # 201) =>
           req[p].uid = NoUser /\ req[p].sid = NoSession /\ req[p].out = NoToken

\* slot p holds a login request that passed the address, credential and
\* verification checks
Admitted(p) == req[p].op = "login" /\ req[p].device # "none"

\* C24: a login admitted from a device fingerprint for which the user had
\* no Device row before the request is seen as coming from an unknown device
\* by the anomaly check, and is answered 200 with the suspicious flag set
\* and the suspicious-login message triggered
C24_NewDeviceIsSuspicious ==
    \A p \in Procs : (Admitted(p) /\ req[p].device = "new") =>
        /\ req[p].pc = "lg_check" =>
              generateDeviceFingerprint(req[p].ip) \notin getKnownDevices(req[p].uid)
        /\ req[p].pc = "done" =>
              req[p].status = 200 /\ req[p].flag /\ req[p].mail # "none"

\* C25: a login from a non-blocked address by an existing, verified user
\* with the matching password is answered 200 with a session and a token
\* pair, whatever the anomaly check reports and whether or not the
\* suspicious-login message was delivered
C25_SuspiciousNeverBlocks ==
    \A p \in Procs : (Admitted(p) /\ req[p].pc = "done") =>
        /\ req[p].status = 200
        /\ req[p].sid \in SessionsOf(req[p].uid)
        /\ req[p].out # NoToken

\* C26: register and login from an address whose location lookup returns
\* unknown complete with their success status
C26_UnknownLocationNeverFails ==
    \A p \in Procs : (req[p].pc = "done" /\ getLocationInfo(req[p].ip) = NoLocation) =>
        /\ (req[p].op = "register" /\ req[p].msg = "none") => req[p].status = 201
        /\ Admitted(p) => req[p].status = 200 /\ ~req[p].flag

\* slot p completes a request whose message could not be sent
NotifierFailed(p) ==
    /\ req'[p] # req[p] /\ req'[p].pc = "done"
    /\ req'[p].mail \in {"undelivered", "throw"}

C27_Step ==
    \A p \in Procs : NotifierFailed(p) =>
        LET r == req'[p]
            u == r.uid
        IN CASE r.op = "register" ->
                  /\ r.status = 201
                  /\ users'[u].refresh_token = r.out /\ r.out # NoToken
                  /\ \E i \in 1..Len(user_sessions') :
                        /\ user_sessions'[i].session_token = r.sid
                        /\ user_sessions'[i].user_id = u
                        /\ user_sessions'[i].is_active
             [] r.op = "verify" ->
                  r.status = 200 /\ users'[u].verified
             [] r.op = "resend" ->
                  /\ r.status = 200
                  /\ users'[u].verification_code = r.code
                  /\ users'[u].verification_code_expires = now + CodeTTL
             [] r.op = "forgot" ->
                  /\ r.status = 200
                  /\ users'[u].reset_password_token = Sha256(r.out)
             [] r.op = "reset" ->
                  /\ r.status = 200
                  /\ users'[u].password = hashPassword(r.password)
             [] r.op = "login" ->
                  r.status = 200 /\ users'[u].refresh_token = r.out
             [] OTHER -> TRUE

LooksUp(p) ==
    /\ req'[p] # req[p]
    /\ Free(p) \/ req[p].pc = "lg_find"
    /\ req'[p].uid \in UserIds

\* C28: no lookup of login, verifyEmail, forgotPassword, resetPassword,
\* refreshToken, User.update or the protect middleware returns a user that
\* is tombstoned
C28_Step ==
    \A p \in Procs : LooksUp(p) => users[req'[p].uid].deleted_at = NoTime

C28_TombstonedIsExcluded == [][C28_Step]_vars

\* slot p takes the first step of an updateWallet call
WalletArrives(p) ==
    Free(p) /\ req'[p].op = "wallet" /\ req'[p] # req[p]

\* what the call of slot p adds to the balance
WalletDelta(p) ==
    IF req[p].type = "add" THEN req[p].amount ELSE 0 - req[p].amount

C29_Inv ==
    \A i \in UserIds : users[i].wallet_balance >= 0

C29_Step ==
    \A p \in Procs :
       /\ (/\ WalletArrives(p) /\ req'[p].type = "subtract"
           /\ req'[p].caller \in UserIds
           /\ users[req'[p].caller].deleted_at = NoTime
           /\ req'[p].amount > users[req'[p].caller].wallet_balance) =>
              /\ req'[p].pc = "done" /\ req'[p].msg = "InsufficientBalance"
              /\ UNCHANGED users
       /\ (req[p].pc = "uw_write" /\ req'[p].pc = "done") =>
              users'[req[p].uid].wallet_balance =
                 users[req[p].uid].wallet_balance + WalletDelta(p)

\* C29: every wallet balance is >= 0 in every reachable state; a
\* subtraction of more than the balance fails with the insufficient-balance
\* error and leaves the balance unchanged; every completed updateWallet
\* changes the balance by its own amount, whatever calls overlap with it
C29_WalletNeverNegative == []C29_Inv /\ [][C29_Step]_vars

\* C30: a login that gets past the address check and is not admitted
\* (unknown email, wrong password or unverified user) goes through
\* handleFailedLogin, which appends one FAILED LOGIN_FAILED row for the
\* source address, the row the failure count of that address is taken from
C30_Step ==
    \A p \in Procs :
       /\ (req[p].pc = "lg_find" /\ req'[p].pc \notin {"lg_find", "lg_devread"}) =>
              req'[p].pc = "lg_faillog"
       /\ (req[p].pc = "lg_faillog" /\ req'[p].pc # "lg_faillog") =>
              /\ req'[p].pc = "lg_count"
              /\ user_activities' =
                    Append(user_activities,
                           ActivityRow(req[p].uid, NoSession, "LOGIN_FAILED",
                                       req[p].ip, "FAILED", "attempt"))

C30_FailedLoginFeedsGuard == [][C30_Step]_vars

\* slot p appends one FAILED row for the address of its request
LogsFailure(p) ==
    /\ Len(user_activities') = Len(user_activities) + 1
    /\ user_activities'[Len(user_activities')].status = "FAILED"
    /\ user_activities'[Len(user_activities')].ip_address = req'[p].ip

\* C31: a verifyEmail request answered InvalidCode or Expired, and a
\* resetPassword request answered with an invalid or expired token, appends
\* an Activity row with status FAILED
C31_Step ==
    \A p \in Procs :
       /\ (VerifyArrives(p) /\ req'[p].msg \in {"InvalidCode", "Expired"}) =>
              LogsFailure(p)
       /\ (ResetArrives(p) /\ req'[p].status = 400) => LogsFailure(p)

C31_FailuresAreLogged == [][C31_Step]_vars

\* C32: a 500 response of an auth flow carries no internal detail: its
\* message is never the message of the error that was thrown
C32_NoInternalDetail ==
    \A p \in Procs : (req[p].pc = "done" /\ req[p].status = 500) =>
        req[p].msg \notin ErrorMessages

\* address ip has a row in the block list
InBlockList(ip) == \E i \in 1..Len(blocked_ips) : blocked_ips[i].ip = ip

\* C33: a login or register request from an address in the block list is
\* answered 403 at once and leaves users, sessions, devices, stored refresh
\* tokens, the activity log and the block list unchanged
C33_Step ==
    \A p \in Procs :
       ((LoginArrives(p) \/ RegisterArrives(p)) /\ InBlockList(req'[p].ip)) =>
           /\ req'[p].pc = "done" /\ req'[p].status = 403
           /\ UNCHANGED <<store, issued>>

C33_BlockedAddressFrame == [][C33_Step]_vars

\* failed login attempts (unknown email or wrong password) of address a
\* inside the counting window: the rows handleFailedLogin has appended
CredentialFailures(a) ==
    Cardinality({i \in 1..Len(user_activities) :
                    /\ user_activities[i].ip_address = a
                    /\ user_activities[i].activity_type = "LOGIN_FAILED"
                    /\ user_activities[i].details = "attempt"
                    /\ user_activities[i].created_at >= now - FailWindow})

\* C34: an address enters the block list only when at least FailThreshold
\* failed login attempts (unknown email or wrong password) from it lie inside
\* the counting window; FAILED rows written by the catch blocks of login and
\* register do not count towards a block
C34_Step ==
    \A a \in Ips :
       (~InBlockList(a) /\ InBlockList(a)') => CredentialFailures(a) >= FailThreshold

C34_NeverBlockedBelowThreshold == [][C34_Step]_vars

\* slot p answers a call of User.update
UpdateArrives(p) ==
    Free(p) /\ req'[p].op = "update" /\ req'[p] # req[p]

\* C39: verified goes from false to true only in a verifyEmail that answers
\* 200 for that user, and a profile update leaves verified, the verification
\* code, the stored refresh token and the reset fields of every user as they
\* were, whatever its body contains
C39_Step ==
    /\ \A i \in UserIds :
          (~users[i].verified /\ users'[i].verified) =>
              \E p \in Procs : /\ VerifyArrives(p)
                               /\ req'[p].status = 200
                               /\ req'[p].uid = i
    /\ \A p \in Procs : UpdateArrives(p) =>
          \A i \in UserIds :
             /\ users'[i].verified = users[i].verified
             /\ users'[i].verification_code = users[i].verification_code
             /\ users'[i].refresh_token = users[i].refresh_token
             /\ users'[i].reset_password_token = users[i].reset_password_token
             /\ users'[i].reset_password_expire = users[i].reset_password_expire

C39_VerifiedOnlyByVerification == [][C39_Step]_vars

\* slot p answers a createUser request
CreateArrives(p) ==
    Free(p) /\ req'[p].op = "create" /\ req'[p] # req[p]

\* C40: a user row inserted by register or by createUser has role user,
\* verified false and wallet balance 0 whatever the request body carries, and
\* User.update changes neither role nor wallet_balance of any user
C40_Step ==
    \A p \in Procs :
       /\ ((RegisterArrives(p) \/ CreateArrives(p)) /\ Len(users') = Len(users) + 1) =>
              LET created == users'[Len(users')]
              IN /\ created.role = "user"
                 /\ created.verified = FALSE
                 /\ created.wallet_balance = 0
       /\ UpdateArrives(p) =>
              \A i \in UserIds :
                 /\ users'[i].role = users[i].role
                 /\ users'[i].wallet_balance = users[i].wallet_balance

C40_NoPrivilegedAccount == [][C40_Step]_vars

\* the Device rows of user u with fingerprint f
DeviceRows(u, f) ==
    {i \in 1..Len(user_devices) :
        user_devices[i].user_id = u /\ user_devices[i].device_fingerprint = f}

C35_Inv ==
    \A i, j \in 1..Len(user_devices) :
       (/\ user_devices[i].user_id = user_devices[j].user_id
        /\ user_devices[i].device_fingerprint = user_devices[j].device_fingerprint)
          => i = j

C35_Step ==
    \A p \in Procs :
       (/\ req[p].pc = "lg_devwrite" /\ req'[p].pc = "lg_session"
        /\ DeviceRows(req[p].uid, generateDeviceFingerprint(req[p].ip)) # {}) =>
           Len(user_devices') = Len(user_devices)

\* C35: there is at most one Device row per (user, fingerprint) pair under
\* every interleaving of createSession calls, and a createSession for a pair
\* that has a row inserts none
C35_OneDevicePerPair == []C35_Inv /\ [][C35_Step]_vars

\* C36: after any sequence of register, softDelete and restore there is at
\* most one non-tombstoned user per email, and findByEmail resolves the
\* email of every non-tombstoned user to that user
C36_OneLiveUserPerEmail ==
    \A i \in UserIds :
       users[i].deleted_at = NoTime =>
          /\ \A j \in UserIds :
                (users[j].deleted_at = NoTime /\ users[j].email = users[i].email)
                   => j = i
          /\ findByEmail(users[i].email) = i

\* the new point is within the threshold of at least one previous location
WithinThreshold(newLocation, previousLocations) ==
    \E i \in 1..previousLocations.len :
       calculateDistance(newLocation, previousLocations.items[i]) <= SuspiciousKm

\* C37: for a new point and previousLocations absent or an array of points,
\* isSuspiciousLocation returns false when previousLocations is absent or
\* empty, false when the new point is within SuspiciousKm of at least one
\* previous location, exactly SuspiciousKm included, and true otherwise
C37_SuspiciousLocation ==
    \A p \in Procs :
       (/\ req[p].op = "locate" /\ req[p].pc = "done"
        /\ req[p].newLocation \in Points) =>
           req[p].msg =
              IF req[p].previousLocations.kind = "null"
                    \/ req[p].previousLocations.len = 0 THEN "false"
              ELSE IF WithinThreshold(req[p].newLocation, req[p].previousLocations)
                   THEN "false" ELSE "true"

\* the non-tombstoned users whose email is e or a case variant of e
CaseMatch(e) ==
    {u \in UserIds : /\ users[u].deleted_at = NoTime
                     /\ normalizeEmail(users[u].email) = normalizeEmail(e)}

\* slot p answers a forgotPassword request
ForgotArrives(p) ==
    Free(p) /\ req'[p].op = "forgot" /\ req'[p] # req[p]

\* C38: login, verifyEmail, resendVerification and forgotPassword find the
\* user when the request carries the registered email or a case variant of
\* it, and a register whose email is a case variant of the email of a
\* non-tombstoned user answers DuplicateEmail
C38_Step ==
    \A p \in Procs :
       /\ ((VerifyArrives(p) \/ ResendArrives(p) \/ ForgotArrives(p))
              /\ CaseMatch(req'[p].email) # {}) =>
                 req'[p].uid \in CaseMatch(req'[p].email)
       /\ (req[p].pc = "lg_find" /\ req'[p].pc # "lg_find"
              /\ CaseMatch(req[p].email) # {}) =>
                 req'[p].uid \in CaseMatch(req[p].email)
       /\ (RegisterArrives(p) /\ ~isIpBlocked(req'[p].ip)
              /\ CaseMatch(req'[p].email) # {}) =>
                 (req'[p].status = 400 /\ req'[p].msg = "DuplicateEmail")

C38_EmailCaseInsensitive == [][C38_Step]_vars

====
